---- MODULE Spec2Model ----
(***************************************************************************)
(* A model of src/dcx.py, the dcx-action driver: toolchain ensure, asset   *)
(* resolution, archive fetch (direct binary or JSON envelope), install     *)
(* through an ordered list of strategies, and the scan workflow.           *)
(*                                                                         *)
(* Text values (URLs, header values, file names) are sequences of tokens;  *)
(* a token stands for a run of characters of one class, so that the        *)
(* regular expression, the header split/strip and the path parsing are     *)
(* computed on the text and not assumed.                                   *)
(***************************************************************************)
EXTENDS Integers, Sequences, FiniteSets, TLC

(***************************************************************************)
(* Bounds of the model.                                                    *)
(***************************************************************************)
\* largest value of MAX_CHECKS drawn for a run
MaxChecksBound == 2
\* largest modification time of a pre-existing scan directory
MaxMtime == 2

(***************************************************************************)
(* Text helpers.                                                           *)
(***************************************************************************)
Last(s) == s[Len(s)]

\* s[a..b], the empty text when a > b
Slice(s, a, b) == IF a > b THEN << >> ELSE SubSeq(s, a, b)

Positions(s, tok) == { i \in 1..Len(s) : s[i] = tok }

Max(S) == CHOOSE x \in S : \A y \in S : y <= x

\* characters that \s matches
Whitespace == { " ", "\n" }

\* characters outside the class [^\s"']
Delims == Whitespace \cup { "\"", "'" }

\* str.strip(chars): drop leading and trailing tokens of chars
RECURSIVE LStrip(_, _)
LStrip(s, chars) ==
    IF s # << >> /\ Head(s) \in chars THEN LStrip(Tail(s), chars) ELSE s

RECURSIVE RStrip(_, _)
RStrip(s, chars) ==
    IF s # << >> /\ Last(s) \in chars
    THEN RStrip(Slice(s, 1, Len(s) - 1), chars)
    ELSE s

Strip(s, chars) == RStrip(LStrip(s, chars), chars)

\* str.lower() on the tokens whose case the program looks at
LowerTok(t) ==
    CASE t = "APPLICATION/" -> "application/"
      [] t = "JSON"         -> "json"
      [] OTHER              -> t

Lower(s) == [ i \in 1..Len(s) |-> LowerTok(s[i]) ]

\* _URL_ASSET_RX, compiled with re.I:
\*   https?://[^\s"']+\.(?:whl|tar\.gz)(?:\?[^\s"']*)?$
Schemes == { "https://", "http://" }

\* the texts \.(?:whl|tar\.gz) matches; re.I makes the upper-case one match
RxExts == { ".whl", ".tar.gz", ".WHL" }

\* `$` without re.M: the end of the text, or just before a final newline
RxEnd(s, m) == m = Len(s) \/ (m = Len(s) - 1 /\ s[Len(s)] = "\n")

\* the pattern matches s from position i on
RxAt(s, i) ==
    /\ i \in 1..Len(s)
    /\ s[i] \in Schemes
    /\ \E k \in (i + 2)..Len(s) :
          /\ \A j \in (i + 1)..(k - 1) : s[j] \notin Delims
          /\ s[k] \in RxExts
          /\ \/ RxEnd(s, k)
             \/ /\ k < Len(s)
                /\ s[k + 1] = "?"
                /\ \E m \in (k + 1)..Len(s) :
                      /\ \A j \in (k + 2)..m : s[j] \notin Delims
                      /\ RxEnd(s, m)

\* _URL_ASSET_RX.match(s): anchored at the start of s
URL_ASSET_RX_match(s) == RxAt(s, 1)

\* _URL_ASSET_RX.search(s): at any position of s
URL_ASSET_RX_search(s) == \E i \in 1..Len(s) : RxAt(s, i)

(***************************************************************************)
(* JSON values. Every value is [t, v]: a string carries its text, a list   *)
(* its items, an object its <<key, value>> pairs in document order (the    *)
(* order dict.values() iterates in).                                       *)
(***************************************************************************)
JStr(s)   == [ t |-> "str", v |-> s ]
JArr(xs)  == [ t |-> "arr", v |-> xs ]
JObj(kvs) == [ t |-> "obj", v |-> kvs ]
JNum      == [ t |-> "num", v |-> << "1" >> ]
JNull     == [ t |-> "null", v |-> << >> ]

\* Python truthiness of a parsed document (payload or {})
Truthy(x) == x.t # "null" /\ x.v # << >>

\* dict.get(key): the value of the key, JNull when absent
DictGet(payload, key) ==
    IF \E i \in 1..Len(payload.v) : payload.v[i][1] = key
    THEN payload.v[CHOOSE i \in 1..Len(payload.v) : payload.v[i][1] = key][2]
    ELSE JNull

\* the children walk() visits, in order
Children(obj) ==
    CASE obj.t = "obj" -> [ i \in 1..Len(obj.v) |-> obj.v[i][2] ]
      [] obj.t = "arr" -> obj.v
      [] OTHER         -> << >>

\* walk(obj): the first string, in depth-first document order, that the
\* pattern is found in; the empty text when there is none.
RECURSIVE walk(_)
RECURSIVE walkSeq(_, _)
walk(obj) ==
    IF obj.t = "str"
    THEN IF URL_ASSET_RX_search(obj.v) THEN obj.v ELSE << >>
    ELSE walkSeq(Children(obj), 1)

walkSeq(xs, i) ==
    IF i > Len(xs) THEN << >>
    ELSE LET found == walk(xs[i])
         IN  IF found # << >> THEN found ELSE walkSeq(xs, i + 1)

WellKnownKeys == << "download_url", "url", "asset_url", "browser_download_url" >>

\* lines 89-92: is the value of this well-known key accepted
KeyHit(payload, key) ==
    LET val == DictGet(payload, key)
    IN  val.t = "str" /\ URL_ASSET_RX_match(val.v)

\* the extraction without the well-known-key pass
extract_walk_only(payload) == walk(payload)

extract_download_url_from_json(payload) ==
    IF \E n \in 1..Len(WellKnownKeys) : KeyHit(payload, WellKnownKeys[n])
    THEN LET n == CHOOSE n \in 1..Len(WellKnownKeys) :
                     /\ KeyHit(payload, WellKnownKeys[n])
                     /\ \A m \in 1..(n - 1) : ~KeyHit(payload, WellKnownKeys[m])
         IN  DictGet(payload, WellKnownKeys[n]).v
    ELSE walk(payload)

(***************************************************************************)
(* File-name derivation, lines 172-180 and 189-197.                        *)
(***************************************************************************)
\* cd.split("filename=")[-1].strip().strip('"') when "filename=" in cd,
\* the empty text (None) otherwise
cd_filename(cd) ==
    IF Positions(cd, "filename=") = {}
    THEN << >>
    ELSE LET p    == Max(Positions(cd, "filename="))
             rest == Slice(cd, p + 1, Len(cd))
         IN  Strip(Strip(rest, Whitespace), { "\"" })

\* urllib.parse.urlparse(u).path: from the first "/" after the authority
\* up to the query or fragment
urlparse_path(u) ==
    LET slashes == Positions(u, "/")
        cuts    == Positions(u, "?") \cup Positions(u, "#")
        stop    == IF cuts = {} THEN Len(u)
                   ELSE (CHOOSE c \in cuts : \A d \in cuts : c <= d) - 1
        first   == IF slashes = {} THEN 0
                   ELSE CHOOSE c \in slashes : \A d \in slashes : c <= d
    IN  IF first = 0 \/ first > stop THEN << >> ELSE Slice(u, first, stop)

\* Path(p).name: the last component, trailing slashes dropped
path_name(p) ==
    LET q       == RStrip(p, { "/" })
        slashes == Positions(q, "/")
    IN  IF slashes = {} THEN q ELSE Slice(q, Max(slashes) + 1, Len(q))

\* filename.endswith(".whl") or filename.endswith(".tar.gz")
has_archive_ext(f) == f # << >> /\ Last(f) \in { ".whl", ".tar.gz" }

GenericName == << "package", ".tar.gz" >>

\* the choice with the URL path put before the header
chosen_name_url_first(cd, u) ==
    IF path_name(urlparse_path(u)) # << >>
    THEN path_name(urlparse_path(u))
    ELSE IF cd_filename(cd) # << >> THEN cd_filename(cd) ELSE GenericName

\* the name before the extension test: header first, then the URL path,
\* then "package.tar.gz"
chosen_name(cd, u) ==
    IF cd_filename(cd) # << >>
    THEN cd_filename(cd)
    ELSE IF path_name(urlparse_path(u)) # << >>
         THEN path_name(urlparse_path(u))
         ELSE GenericName

local_filename(cd, u) ==
    IF has_archive_ext(chosen_name(cd, u))
    THEN chosen_name(cd, u)
    ELSE chosen_name(cd, u) \o << ".tar.gz" >>

\* the endpoint with the tag left out of the format string
dcx_service_download_url_untagged(t) ==
    << "https://", "api.withdmc.com", "/", "v1", "/", "dmc", "/", "github",
       "/", "releases", "/", "download", "?", "tag=", "latest" >>

\* dcx_service_download_url(tag)
dcx_service_download_url(t) ==
    << "https://", "api.withdmc.com", "/", "v1", "/", "dmc", "/", "github",
       "/", "releases", "/", "download", "?", "tag=", t >>

\* lines 141-146: the headers of the first request
auth_headers(tok) ==
    IF tok # ""
    THEN { << "Authorization", << "Bearer ", tok >> >>,
           << "token", << "Bearer ", tok >> >> }
    ELSE { }

\* requests.get refuses, before sending anything, a URL that (leading
\* whitespace dropped) does not start with a scheme followed by a host
requests_accepts(u) ==
    LET v == LStrip(u, Whitespace)
    IN  Len(v) >= 2 /\ v[1] \in Schemes /\ v[2] \notin Delims \cup { "/", "?" }

\* "json" in content_type.lower()
is_json_ctype(ct) == \E j \in 1..Len(Lower(ct)) : Lower(ct)[j] = "json"

(***************************************************************************)
(* The inputs: what the environment, the network and the subprocesses can  *)
(* hand to the program.                                                    *)
(***************************************************************************)
\* deepest nesting of a value inside an envelope entry
MaxDepth == 1

U_whl   == << "https://", "h", "/", "a", ".whl" >>
U_tgz_q == << "https://", "h", "/", "x", "/", "b", ".tar.gz", "?", "sig" >>
U_upper == << "https://", "h", "/", "A", ".WHL" >>
U_root  == << "https://", "h", "/" >>
T_see   == << "see", " ", "https://", "h", "/", "c", ".whl" >>
T_none  == << "https://", "h", "/", "releases" >>

\* the texts that occur as JSON strings
Texts == { U_whl, U_tgz_q, T_see, T_none }

Leaves == { JStr(s) : s \in Texts } \cup { JNum }

RECURSIVE Nested(_)
Nested(d) ==
    IF d = 0 THEN Leaves
    ELSE Nested(d - 1)
         \cup { JArr(<< JNum, x >>) : x \in Nested(d - 1) }
         \cup { JObj(<< << "meta", x >> >>) : x \in Nested(d - 1) }

\* the key orders of the envelopes drawn
KeySeqs ==
    { << "download_url", "url" >>, << "url", "download_url" >>,
      << "data", "url" >>, << "browser_download_url", "data" >>,
      << "data", "items" >>, << "asset_url", "message" >> }

\* JSON objects: one entry nested up to MaxDepth, the other a leaf
ObjectDocs ==
    { JObj(<< << ks[1], a >>, << ks[2], b >> >>) :
        ks \in KeySeqs, a \in Nested(MaxDepth), b \in Leaves }
    \cup { JObj(<< << ks[1], b >>, << ks[2], a >> >>) :
        ks \in KeySeqs, a \in Nested(MaxDepth), b \in Leaves }
    \cup { JObj(<< >>) }

\* JSON documents that are not objects; JNull also stands for a body that
\* r.json() cannot parse (payload = None)
OtherDocs ==
    { JArr(<< JStr(U_whl) >>), JArr(<< JNum >>), JArr(<< >>),
      JStr(U_whl), JNum, JNull }

Docs == ObjectDocs \cup OtherDocs

\* the bytes of an archive
Bin == [ t |-> "bin", v |-> << "bytes" >> ]

\* bodies served with a non-JSON content type
PlainBodies == { Bin, JObj(<< << "download_url", JStr(U_whl) >> >>) }

PlainCTypes == { << "application/", "octet-stream" >>, << >> }

\* Content-Disposition header values; << >> is a response without one
CDs ==
    { << >>,
      << "attachment" >>,
      << "attachment;", " ", "filename=", "\"", "pkg", ".whl", "\"" >>,
      << "attachment;", " ", "filename=", "pkg" >>,
      << "attachment;", " ", "filename=", "\"", "\"" >>,
      << "attachment;", " ", "filename=", "pkg", ".whl", ";", " ", "size=3" >> }

ExplicitUrls == { U_tgz_q, U_upper, U_root }
\* DCX_TAG in the environment: not set, set, set to the empty text
Unset        == "<unset>"
EnvTags      == { Unset, "v1", "" }
Delays       == { "1.0", "0.5" }
Tokens       == { "", "tok" }
ExitCodes    == { 0, 1 }
ScanIds      == { "dcx-scan-a", "dcx-scan-b" }
NewScanId    == "dcx-scan-n"

\* the list with the package manager's package-install mode in second place
strategies_with_uv_pip ==
    << "uv tool install --force", "uv pip install --user",
       "pip3 install --user" >>

\* lines 121-125
strategies == << "uv tool install --force", "pip3 install --user" >>

(***************************************************************************)
(* The state.                                                              *)
(***************************************************************************)
VARIABLES
    entry,        \* the function the run was started at
    pc,           \* the position in the code
    err,          \* the message of the exception that ended the run, or ""
    pending,      \* the exception in flight while a finally block runs
    env_url,      \* DCX_URL as found in the environment
    dcx_url,      \* the local dcx_url of main
    env_tag,      \* DCX_TAG as found in the environment
    tag,          \* the local tag of main
    token,        \* DCX_SERVICE_TOKEN / GITHUB_TOKEN
    max_checks,   \* MAX_CHECKS
    delay,        \* DELAY
    onPath,       \* the tools shutil.which finds
    install_fn,   \* whether ensure_tool was given an installer
    makefile,     \* whether SCANNER_DIR holds a build-description file
    reqs,         \* the requests.get calls made, in order
    r,            \* the first response
    payload,      \* the parsed envelope
    asset_url,    \* the URL taken from the envelope
    r2,           \* the response to the re-fetch
    archive,      \* the file name of the local archive, << >> before it is set
    files,        \* the files written and not removed: [name, content]
    i,            \* the index of the install strategy to try next
    cmds,         \* the subprocesses run, in order: [cmd, arg, arg2, rc, dir]
    logs,         \* the log lines
    cwd,          \* the process working directory
    scanDirs,     \* output/dcx-scan-*: id -> modification time
    scan_dir      \* the name of the directory _latest_scan_dir returned,
                  \* "" for None

vars ==
    << entry, pc, err, pending, env_url, dcx_url, env_tag, tag, token,
       max_checks, delay, onPath, install_fn, makefile, reqs, r, payload, asset_url, r2, archive,
       files, i, cmds, logs, cwd, scanDirs, scan_dir >>

inputVars ==
    << entry, env_url, env_tag, tag, token, max_checks, delay, install_fn,
       makefile >>
netVars   == << reqs, r, payload, asset_url, r2, archive, files >>
flowVars  == << cwd, scanDirs, scan_dir >>

\* env(name, default), lines 20-21
env(value, default) == IF value = Unset THEN default ELSE value

NoResp == [ status |-> 0, ctype |-> << >>, body |-> JNull, cd |-> << >> ]

StartDir   == "workdir"
ScannerDir == "scanner_dir"

\* every partial map from ids to modification times
ScanDirStates ==
    UNION { [ S -> 1..MaxMtime ] : S \in SUBSET ScanIds }

Common ==
    /\ err = ""
    /\ pending = ""
    /\ reqs = << >>
    /\ r = NoResp
    /\ payload = JNull
    /\ asset_url = << >>
    /\ r2 = NoResp
    /\ archive = << >>
    /\ files = { }
    /\ i = 1
    /\ cmds = << >>
    /\ logs = << >>
    /\ cwd = StartDir
    /\ scan_dir = ""

InitMain ==
    /\ entry = "main"
    /\ pc = "main"
    /\ env_url \in ExplicitUrls \cup { << >> }
    /\ dcx_url = env_url
    /\ env_tag \in EnvTags
    /\ env_url # << >> => env_tag = Unset
    /\ tag = env(env_tag, "latest")
    /\ token \in Tokens
    /\ max_checks = 1
    /\ delay = "1.0"
    /\ onPath \in { { }, { "uv" } }
    /\ install_fn = TRUE
    /\ makefile \in BOOLEAN
    /\ scanDirs = << >>

InitEnsureTool ==
    /\ entry = "ensure_tool"
    /\ pc = "ensure_tool"
    /\ env_url = << >> /\ dcx_url = << >> /\ token = ""
    /\ env_tag = Unset /\ tag = "latest"
    /\ max_checks = 1
    /\ delay = "1.0"
    /\ onPath \in { { }, { "uv" } }
    /\ install_fn \in BOOLEAN
    /\ makefile = FALSE
    /\ scanDirs = << >>

InitFlow ==
    /\ entry \in { "run_makeflow", "run_cli" }
    /\ pc = entry
    /\ env_url = << >> /\ dcx_url = << >> /\ token = ""
    /\ env_tag = Unset /\ tag = "latest"
    /\ max_checks \in 0..MaxChecksBound
    /\ delay \in Delays
    /\ onPath \in { { "uv", "uvx" }, { "uv", "dcx" }, { "uv" }, { "python3" } }
    /\ install_fn = TRUE
    /\ makefile = (entry = "run_makeflow")
    /\ scanDirs \in ScanDirStates

Init == Common /\ (InitMain \/ InitEnsureTool \/ InitFlow)

\* raise: the exception leaves the function the run was started at
Raise(msg) == pc' = "raised" /\ err' = msg

\* sh(cmd): the record of one subprocess; arg and arg2 are the texts the
\* command line was parameterized with
RanWith2(cmd, arg, arg2, rc) ==
    [ cmd |-> cmd, arg |-> arg, arg2 |-> arg2, rc |-> rc, dir |-> cwd ]
RanWith(cmd, arg, rc) == RanWith2(cmd, arg, "", rc)
Ran(cmd, rc) == RanWith2(cmd, "", "", rc)

(***************************************************************************)
(* ensure_tool and install_uv, lines 58-72.                                *)
(***************************************************************************)
\* line 287
MainEnsure ==
    /\ pc = "main"
    /\ pc' = "ensure_tool"
    /\ UNCHANGED << err, pending, dcx_url, onPath, i, cmds, logs >>
    /\ UNCHANGED << inputVars, netVars, flowVars >>

\* where ensure_tool returns to
AfterEnsure == IF entry = "main" THEN "resolve" ELSE "done"

\* lines 59-60
EnsureToolFound ==
    /\ pc = "ensure_tool"
    /\ "uv" \in onPath
    /\ pc' = AfterEnsure
    /\ UNCHANGED << err, pending, dcx_url, onPath, i, cmds, logs >>
    /\ UNCHANGED << inputVars, netVars, flowVars >>

\* lines 61-62
EnsureToolNoInstaller ==
    /\ pc = "ensure_tool"
    /\ "uv" \notin onPath
    /\ ~install_fn
    /\ Raise("uv not found")
    /\ UNCHANGED << pending, dcx_url, onPath, i, cmds, logs >>
    /\ UNCHANGED << inputVars, netVars, flowVars >>

\* line 63 and install_uv, lines 68-72: the bootstrap script runs, and on
\* exit 0 ~/.uv/bin is put on PATH, where uv may or may not have landed
InstallUv ==
    /\ pc = "ensure_tool"
    /\ "uv" \notin onPath
    /\ install_fn
    /\ \E rc \in ExitCodes, landed \in BOOLEAN :
          /\ cmds' = Append(cmds, Ran("uv bootstrap", rc))
          /\ IF rc # 0
             THEN Raise("cmd failed") /\ onPath' = onPath
             ELSE /\ pc' = "ensure_recheck"
                  /\ err' = err
                  /\ onPath' = IF landed THEN onPath \cup { "uv" } ELSE onPath
    /\ UNCHANGED << pending, dcx_url, i, logs >>
    /\ UNCHANGED << inputVars, netVars, flowVars >>

\* ensure_tool returning after install_fn without the second look at PATH
EnsureToolRecheck_skipped ==
    /\ pc = "ensure_recheck"
    /\ pc' = AfterEnsure
    /\ UNCHANGED << err, pending, dcx_url, onPath, i, cmds, logs >>
    /\ UNCHANGED << inputVars, netVars, flowVars >>

\* lines 64-65
EnsureToolRecheck ==
    /\ pc = "ensure_recheck"
    /\ IF "uv" \in onPath
       THEN pc' = AfterEnsure /\ err' = err
       ELSE Raise("uv install failed")
    /\ UNCHANGED << pending, dcx_url, onPath, i, cmds, logs >>
    /\ UNCHANGED << inputVars, netVars, flowVars >>

(***************************************************************************)
(* main, lines 289-292: the asset reference.                               *)
(***************************************************************************)
MainResolveUrl ==
    /\ pc = "resolve"
    /\ dcx_url' = IF dcx_url = << >> THEN dcx_service_download_url(tag)
                  ELSE dcx_url
    /\ logs' = Append(logs, << "install from", "" >>)
    /\ pc' = "get1"
    /\ UNCHANGED << err, pending, onPath, i, cmds >>
    /\ UNCHANGED << inputVars, netVars, flowVars >>

(***************************************************************************)
(* uv_tool_install_from_url, lines 137-206.                                *)
(***************************************************************************)
Req(u, hs) == [ url |-> u, headers |-> hs ]

\* what the first GET can come back with; the parts of a response that the
\* branch taken never reads are left at their defaults
Responses1 ==
    { [ status |-> 404, ctype |-> << >>, body |-> JNull, cd |-> << >> ] }
    \cup [ status : { 200 }, ctype : { << "application/", "json" >> },
           body : Docs, cd : { << >> } ]
    \cup [ status : { 200 }, ctype : { << "APPLICATION/", "JSON" >> },
           body : OtherDocs, cd : { << >> } ]
    \cup [ status : { 200 }, ctype : PlainCTypes, body : PlainBodies, cd : CDs ]

\* what the re-fetch can come back with
Responses2 ==
    { [ status |-> 404, ctype |-> << >>, body |-> JNull, cd |-> << >> ] }
    \cup [ status : { 200 }, ctype : { << >> }, body : { Bin }, cd : CDs ]
    \cup { [ status |-> 200, ctype |-> << "application/", "json" >>,
             body |-> JObj(<< << "download_url", JStr(U_tgz_q) >> >>),
             cd |-> << >> ] }

\* line 149: requests.get(url, headers=headers, ...). The call raises when
\* the URL is refused (nothing is sent then) or the transfer fails.
Get1 ==
    /\ pc = "get1"
    /\ reqs' = Append(reqs, Req(dcx_url, auth_headers(token)))
    /\ \/ Raise("request failed") /\ r' = r
       \/ /\ requests_accepts(dcx_url)
          /\ \E resp \in Responses1 :
                r' = resp /\ pc' = "status1" /\ err' = err
    /\ UNCHANGED << pending, dcx_url, onPath, i, cmds, logs >>
    /\ UNCHANGED << payload, asset_url, r2, archive, files >>
    /\ UNCHANGED << inputVars, flowVars >>

\* the first response taken whatever its status
CheckStatus1_any_status ==
    /\ pc = "status1"
    /\ pc' = IF is_json_ctype(r.ctype) THEN "envelope" ELSE "direct"
    /\ UNCHANGED << err, pending, dcx_url, onPath, i, cmds, logs >>
    /\ UNCHANGED << inputVars, netVars, flowVars >>

\* lines 150-160: the status test, then the branch on the content type
CheckStatus1 ==
    /\ pc = "status1"
    /\ IF r.status # 200
       THEN Raise("download failed")
       ELSE /\ pc' = IF is_json_ctype(r.ctype) THEN "envelope" ELSE "direct"
            /\ err' = err
    /\ UNCHANGED << pending, dcx_url, onPath, i, cmds, logs >>
    /\ UNCHANGED << inputVars, netVars, flowVars >>

\* lines 161-167: r.json() (None when it raises), the extraction on
\* `payload or {}`, and the test of its result. payload.get on a document
\* that is not an object raises AttributeError. The body is read here.
ParseEnvelope ==
    /\ pc = "envelope"
    /\ payload' = r.body
    /\ r' = [ r EXCEPT !.body = JNull ]
    /\ LET arg == IF Truthy(r.body) THEN r.body ELSE JObj(<< >>)
       IN  IF arg.t # "obj"
           THEN Raise("AttributeError") /\ asset_url' = asset_url
           ELSE /\ asset_url' = extract_download_url_from_json(arg)
                /\ IF asset_url' = << >>
                   THEN Raise("service returned JSON without an asset URL")
                   ELSE pc' = "get2" /\ err' = err
    /\ UNCHANGED << pending, dcx_url, onPath, i, cmds, logs >>
    /\ UNCHANGED << reqs, r2, archive, files >>
    /\ UNCHANGED << inputVars, flowVars >>

\* line 169: requests.get(asset_url, stream=True, timeout=300), no headers.
\* payload is not read after line 167.
refetch_headers_reattached(tok) == auth_headers(tok)

refetch_headers(tok) == { }

Get2 ==
    /\ pc = "get2"
    /\ payload' = JNull
    /\ reqs' = Append(reqs, Req(asset_url, refetch_headers(token)))
    /\ \/ Raise("request failed") /\ r2' = r2
       \/ /\ requests_accepts(asset_url)
          /\ \E resp \in Responses2 :
                r2' = resp /\ pc' = "status2" /\ err' = err
    /\ UNCHANGED << pending, dcx_url, onPath, i, cmds, logs >>
    /\ UNCHANGED << r, asset_url, archive, files >>
    /\ UNCHANGED << inputVars, flowVars >>

\* the second response handled as the first is
after_refetch_as_envelope == "envelope"

\* where a re-fetch answered with 200 goes: to the file name and the write
after_refetch == "write2"

\* lines 170-171
CheckStatus2 ==
    /\ pc = "status2"
    /\ IF r2.status # 200
       THEN Raise("asset download failed")
       ELSE pc' = after_refetch /\ err' = err
    /\ UNCHANGED << pending, dcx_url, onPath, i, cmds, logs >>
    /\ UNCHANGED << inputVars, netVars, flowVars >>

File(name, resp) == [ name |-> name, content |-> resp.body.t ]

\* lines 172-186: the file name and the write, envelope path
WriteEnvelopeArchive ==
    /\ pc = "write2"
    /\ archive' = local_filename(r2.cd, asset_url)
    /\ files' = files \cup { File(archive', r2) }
    /\ pc' = "downloaded"
    /\ UNCHANGED << err, pending, dcx_url, onPath, i, cmds, logs >>
    /\ UNCHANGED << reqs, r, payload, asset_url, r2 >>
    /\ UNCHANGED << inputVars, flowVars >>

\* lines 189-203: the file name and the write, direct path
WriteDirectArchive ==
    /\ pc = "direct"
    /\ archive' = local_filename(r.cd, dcx_url)
    /\ files' = files \cup { File(archive', r) }
    /\ pc' = "downloaded"
    /\ UNCHANGED << err, pending, dcx_url, onPath, i, cmds, logs >>
    /\ UNCHANGED << reqs, r, payload, asset_url, r2 >>
    /\ UNCHANGED << inputVars, flowVars >>

\* lines 205-206
LogDownloaded ==
    /\ pc = "downloaded"
    /\ logs' = Append(logs, << "downloaded", "" >>)
    /\ i' = 1
    /\ pc' = "install"
    /\ UNCHANGED << err, pending, dcx_url, onPath, cmds >>
    /\ UNCHANGED << inputVars, netVars, flowVars >>

(***************************************************************************)
(* install_from_archive, lines 120-134.                                    *)
(***************************************************************************)
\* where install_from_archive returns to
AfterInstall == "run_flow"

\* the loop leaving on any exit code
after_strategy_any_rc(n, rc) == AfterInstall

\* the position after strategy number n exited with rc
after_strategy(n, rc) == IF rc = 0 THEN AfterInstall ELSE "install"

\* lines 127-133: one turn of the loop
InstallStep ==
    /\ pc = "install"
    /\ i <= Len(strategies)
    /\ \E rc \in ExitCodes :
          /\ cmds' = Append(cmds, RanWith(strategies[i], archive, rc))
          /\ pc' = after_strategy(i, rc)
          /\ logs' = IF rc = 0
                     THEN Append(logs, << "install step", strategies[i] >>)
                     ELSE logs \o << << "install step", strategies[i] >>,
                                    << "install step failed", strategies[i] >> >>
          /\ i' = IF rc = 0 THEN i ELSE i + 1
    /\ UNCHANGED << err, pending, dcx_url, onPath >>
    /\ UNCHANGED << inputVars, netVars, flowVars >>

\* line 134
InstallExhausted ==
    /\ pc = "install"
    /\ i > Len(strategies)
    /\ Raise("dcx install failed via all strategies")
    /\ UNCHANGED << pending, dcx_url, onPath, i, cmds, logs >>
    /\ UNCHANGED << inputVars, netVars, flowVars >>

\* line 298: run_cli(repo_path, max_checks, delay) leaves the parameter
\* AI_API_KEY of run_cli without an argument: the call raises TypeError
\* before the body of run_cli starts
MainRunFlow ==
    /\ pc = "run_flow"
    /\ Raise("TypeError")
    /\ UNCHANGED << pending, dcx_url, onPath, i, cmds, logs >>
    /\ UNCHANGED << inputVars, netVars, flowVars >>

(***************************************************************************)
(* The workflow: _dcx_cmd, _latest_scan_dir, run_makeflow, run_cli.        *)
(***************************************************************************)
\* _dcx_cmd, lines 209-220
dcx_cmd(path) ==
    CASE "uvx" \in path -> "uvx dcx"
      [] "uvx" \notin path /\ "dcx" \in path -> "dcx"
      [] "uvx" \notin path /\ "dcx" \notin path /\ "uv" \in path -> "uv run -m dcx"
      [] OTHER -> "python3 -m dcx"

\* the order `ls` lists equal modification times in
NameOrder == << "dcx-scan-a", "dcx-scan-b", "dcx-scan-n" >>
NameRank(id) == CHOOSE n \in 1..Len(NameOrder) : NameOrder[n] = id

\* a listing without -t: the first name, whatever the times
latest_scan_dir_by_name(dirs) ==
    IF DOMAIN dirs = { } THEN ""
    ELSE CHOOSE d \in DOMAIN dirs :
            \A e \in DOMAIN dirs : NameRank(d) <= NameRank(e)

\* ls -td output/dcx-scan-* | head -n 1, then Path(out): newest first, the
\* name deciding between equal times; "" (None) when nothing is listed
latest_scan_dir(dirs) ==
    IF DOMAIN dirs = { } THEN ""
    ELSE CHOOSE d \in DOMAIN dirs :
            \A e \in DOMAIN dirs :
                \/ dirs[e] < dirs[d]
                \/ dirs[e] = dirs[d] /\ NameRank(d) <= NameRank(e)

\* a scan that exits 0 has written a new output directory, or none
AfterScan(dirs, made) ==
    IF made
    THEN [ d \in DOMAIN dirs \cup { NewScanId } |->
             IF d = NewScanId THEN MaxMtime + 1 ELSE dirs[d] ]
    ELSE dirs

\* a raise inside the try block of run_makeflow: the finally block is next
RaiseInTry(msg) == pc' = "mk_finally" /\ pending' = msg

\* lines 236-238
MakeChdir ==
    /\ pc = "run_makeflow"
    /\ \E ok \in BOOLEAN :
          IF ok
          THEN cwd' = ScannerDir /\ pc' = "mk_scan" /\ pending' = pending
          ELSE cwd' = cwd /\ RaiseInTry("chdir failed")
    /\ UNCHANGED << err, dcx_url, onPath, i, cmds, logs, scanDirs, scan_dir >>
    /\ UNCHANGED << inputVars, netVars >>

\* line 240
MakeScan ==
    /\ pc = "mk_scan"
    /\ \E rc \in ExitCodes, made \in BOOLEAN :
          /\ cmds' = Append(cmds, Ran("make scan-full", rc))
          /\ IF rc # 0
             THEN RaiseInTry("cmd failed") /\ scanDirs' = scanDirs
             ELSE /\ pc' = "mk_latest"
                  /\ pending' = pending
                  /\ scanDirs' = AfterScan(scanDirs, made)
    /\ UNCHANGED << err, dcx_url, onPath, i, logs, cwd, scan_dir >>
    /\ UNCHANGED << inputVars, netVars >>

\* _latest_scan_dir, lines 223-230: None when the listing is empty or the
\* shell call raises
LatestScanDir ==
    /\ pc \in { "mk_latest", "cli_latest" }
    /\ \E rc \in ExitCodes :
          /\ cmds' = Append(cmds, Ran("ls -td", rc))
          /\ scan_dir' = IF rc = 0 THEN latest_scan_dir(scanDirs) ELSE ""
    /\ pc' = IF pc = "mk_latest" THEN "mk_id" ELSE "cli_id"
    /\ UNCHANGED << err, pending, dcx_url, onPath, i, logs, cwd, scanDirs >>
    /\ UNCHANGED << inputVars, netVars >>

\* lines 242-244
MakeScanId ==
    /\ pc = "mk_id"
    /\ IF scan_dir = ""
       THEN RaiseInTry("no scan directory under output/")
       ELSE pc' = "mk_check" /\ pending' = pending
    /\ UNCHANGED << err, dcx_url, onPath, i, cmds, logs >>
    /\ UNCHANGED << inputVars, netVars, flowVars >>

\* one `sh(make ..., check=True)` of lines 246-251
MakeStep(at, cmd, arg, next) ==
    /\ pc = at
    /\ \E rc \in ExitCodes :
          /\ cmds' = Append(cmds, RanWith(cmd, arg, rc))
          /\ IF rc # 0
             THEN RaiseInTry("cmd failed")
             ELSE pc' = next /\ pending' = pending
    /\ UNCHANGED << err, dcx_url, onPath, i >>
    /\ UNCHANGED << inputVars, netVars, flowVars >>

\* line 246
MakeCheck ==
    /\ MakeStep("mk_check", "make check-ai-results-scan", scan_dir, "mk_verbose")
    /\ logs' = logs

\* the verbose check run with check=False: its exit code is not looked at
MakeVerbose_unchecked ==
    /\ pc = "mk_verbose"
    /\ \E rc \in ExitCodes :
          cmds' = Append(cmds, RanWith2("make check-ai-results-verbose",
                                        ToString(max_checks), delay, rc))
    /\ pc' = "mk_combine"
    /\ UNCHANGED << err, pending, dcx_url, onPath, i, logs >>
    /\ UNCHANGED << inputVars, netVars, flowVars >>

\* lines 247-250
MakeVerbose ==
    /\ pc = "mk_verbose"
    /\ \E rc \in ExitCodes :
          /\ cmds' = Append(cmds, RanWith2("make check-ai-results-verbose",
                                           ToString(max_checks), delay, rc))
          /\ IF rc # 0
             THEN RaiseInTry("cmd failed")
             ELSE pc' = "mk_combine" /\ pending' = pending
    /\ UNCHANGED << err, dcx_url, onPath, i, logs >>
    /\ UNCHANGED << inputVars, netVars, flowVars >>

\* lines 251-252
MakeCombine ==
    /\ MakeStep("mk_combine", "make combine-analysis", scan_dir, "mk_finally")
    /\ logs' = IF pending' = "" THEN Append(logs, << "done", scan_dir >>)
               ELSE logs

\* run_makeflow without its finally block: nothing changes directory back
MakeFinally_no_chdir ==
    /\ pc = "mk_finally"
    /\ pending' = ""
    /\ IF pending # "" THEN Raise(pending) ELSE pc' = "done" /\ err' = err
    /\ UNCHANGED << dcx_url, onPath, i, cmds, logs >>
    /\ UNCHANGED << inputVars, netVars, flowVars >>

\* lines 253-254: the finally block, then the return or the re-raise
MakeFinally ==
    /\ pc = "mk_finally"
    /\ cwd' = StartDir
    /\ pending' = ""
    /\ IF pending # "" THEN Raise(pending) ELSE pc' = "done" /\ err' = err
    /\ UNCHANGED << dcx_url, onPath, i, cmds, logs, scanDirs, scan_dir >>
    /\ UNCHANGED << inputVars, netVars >>

\* lines 258-260
RunCliScan ==
    /\ pc = "run_cli"
    /\ \E rc \in ExitCodes, made \in BOOLEAN :
          /\ cmds' = Append(cmds, RanWith(dcx_cmd(onPath), "scan start", rc))
          /\ IF rc # 0
             THEN Raise("cmd failed") /\ scanDirs' = scanDirs
             ELSE /\ pc' = "cli_latest"
                  /\ err' = err
                  /\ scanDirs' = AfterScan(scanDirs, made)
    /\ UNCHANGED << pending, dcx_url, onPath, i, logs, cwd, scan_dir >>
    /\ UNCHANGED << inputVars, netVars >>

\* lines 264-268
RunCliFinish ==
    /\ pc = "cli_id"
    /\ IF scan_dir = ""
       THEN Raise("no scan directory under output/") /\ logs' = logs
       ELSE /\ pc' = "done"
            /\ err' = err
            /\ logs' = Append(logs, << "complete", scan_dir >>)
    /\ UNCHANGED << pending, dcx_url, onPath, i, cmds >>
    /\ UNCHANGED << inputVars, netVars, flowVars >>

(***************************************************************************)
(* The specification.                                                      *)
(***************************************************************************)
Next ==
    \/ MainEnsure
    \/ EnsureToolFound
    \/ EnsureToolNoInstaller
    \/ InstallUv
    \/ EnsureToolRecheck
    \/ MainResolveUrl
    \/ Get1
    \/ CheckStatus1
    \/ ParseEnvelope
    \/ Get2
    \/ CheckStatus2
    \/ WriteEnvelopeArchive
    \/ WriteDirectArchive
    \/ LogDownloaded
    \/ InstallStep
    \/ InstallExhausted
    \/ MainRunFlow
    \/ MakeChdir
    \/ MakeScan
    \/ LatestScanDir
    \/ MakeScanId
    \/ MakeCheck
    \/ MakeVerbose
    \/ MakeCombine
    \/ MakeFinally
    \/ RunCliScan
    \/ RunCliFinish

Spec == Init /\ [][Next]_vars

\* the run is over
Returned == pc = "done"
Raised   == pc = "raised"

TypeOK ==
    /\ pc \in { "main", "ensure_tool", "ensure_recheck", "resolve", "get1",
                "status1", "envelope", "direct", "get2", "status2", "write2",
                "downloaded", "install", "run_flow", "run_makeflow", "mk_scan",
                "mk_latest", "mk_id", "mk_check", "mk_verbose", "mk_combine",
                "mk_finally", "run_cli", "cli_latest", "cli_id", "done",
                "raised" }
    /\ (pc = "raised") = (err # "")
    /\ i \in 1..(Len(strategies) + 1)

(***************************************************************************)
(* Properties.                                                             *)
(***************************************************************************)
Range(f) == { f[x] : x \in DOMAIN f }

\* the install commands run so far, in order
InstallRuns == SelectSeq(cmds, LAMBDA c : c.cmd \in Range(strategies))

\* install_from_archive has returned normally / has raised
InstallReturned == pc = "run_flow" \/ err = "TypeError"
InstallFailed   == err = "dcx install failed via all strategies"

\* C1: install_from_archive runs the strategies in list order, each at most
\* once and none after the first that exits 0; it returns normally exactly
\* when the last one run exited 0, and raises the aggregate failure exactly
\* when all of them were run and all exited non-zero.
C1_StrategiesInOrder ==
    LET runs == InstallRuns
        N    == Len(strategies)
    IN  /\ Len(runs) <= N
        /\ \A n \in 1..Len(runs) : runs[n].cmd = strategies[n]
        /\ \A n \in 1..(Len(runs) - 1) : runs[n].rc # 0
        /\ InstallReturned => Len(runs) >= 1 /\ Last(runs).rc = 0
        /\ InstallFailed =>
              Len(runs) = N /\ \A n \in 1..N : runs[n].rc # 0
        /\ (Len(runs) >= 1 /\ Last(runs).rc = 0) => InstallReturned
        /\ (Len(runs) = N /\ \A n \in 1..N : runs[n].rc # 0) =>
              InstallFailed \/ (pc = "install" /\ i = N + 1)

\* strategy 1 failed, strategy 2 exited 0 and the installer returned
C1_Witness ==
    /\ pc = "run_flow"
    /\ Len(InstallRuns) = 2
    /\ InstallRuns[1].rc # 0
    /\ InstallRuns[2].rc = 0

\* the workflow stage of main was entered
WorkflowReached == entry = "main" /\ (pc = "run_flow" \/ err = "TypeError")

\* the named build-description operations / the tool's own subcommands ran
OrchestratedRan == \E n \in 1..Len(cmds) : cmds[n].cmd = "make scan-full"
DirectRan       == \E n \in 1..Len(cmds) : cmds[n].arg = "scan start"

\* C2: a run of main that is over and had reached the workflow stage ran
\* Orchestrated Mode exactly when the build-description file is present,
\* Direct Mode exactly when it is absent, and never both.
C2_ModeSelection ==
    (WorkflowReached /\ Raised) =>
        /\ OrchestratedRan <=> makefile
        /\ DirectRan <=> ~makefile
        /\ ~(OrchestratedRan /\ DirectRan)

StatusChecks == SelectSeq(cmds, LAMBDA c : c.arg = "status")
CombineRuns  ==
    SelectSeq(cmds, LAMBDA c : c.arg = "combine" \/ c.cmd = "make combine-analysis")

\* C3: when run_cli returns normally it has polled the status at least once
\* (max_checks permitting) and at most max_checks times, and has gone on to
\* the combine step.
C3_BoundedPolling ==
    (entry = "run_cli" /\ Returned) =>
        /\ Len(StatusChecks) <= max_checks
        /\ max_checks >= 1 => Len(StatusChecks) >= 1
        /\ Len(CombineRuns) = 1

\* C4: a run of the workflow in which only the combine command exited
\* non-zero ends normally and reports the scan identifier.
C4_CombineBestEffort ==
    ( /\ entry \in { "run_makeflow", "run_cli" }
      /\ Returned \/ Raised
      /\ Len(CombineRuns) = 1
      /\ \A n \in 1..Len(cmds) :
            (cmds[n].rc # 0) <=> (cmds[n] = CombineRuns[1]) ) =>
        /\ Returned
        /\ \E n \in 1..Len(logs) : logs[n][2] = scan_dir

\* C5: once the installer has returned or raised, the local archive is gone.
C5_ArchiveRemoved ==
    (InstallReturned \/ InstallFailed) =>
        \A f \in files : f.name # archive

\* the well-known keys, in the order the claim gives them
C6_KeyOrder == << "download_url", "url", "asset_url", "browser_download_url" >>

\* the value is a string that is, as a whole, an archive URL
C6_Matches(x) == x.t = "str" /\ URL_ASSET_RX_match(x.v)

\* the well-known keys of the document whose value matches
C6_Hits(doc) ==
    IF doc.t # "obj" THEN { }
    ELSE { n \in 1..Len(C6_KeyOrder) : C6_Matches(DictGet(doc, C6_KeyOrder[n])) }

\* lines 161-167 have run on a JSON response: payload holds the document
EnvelopeParsed ==
    /\ r.status = 200
    /\ is_json_ctype(r.ctype)
    /\ Len(reqs) = 1
    /\ pc \in { "get2", "raised" }
    /\ err # "request failed"

\* C6: when a well-known key of the envelope holds a matching string, the
\* URL taken is the value of the first such key in the fixed key order, and
\* the fetch goes on to the re-download.
C6_WellKnownKeyFirst ==
    (EnvelopeParsed /\ C6_Hits(payload) # { }) =>
        LET n == CHOOSE n \in C6_Hits(payload) :
                     \A m \in C6_Hits(payload) : n <= m
        IN  /\ asset_url = DictGet(payload, C6_KeyOrder[n]).v
            /\ pc = "get2"

\* an envelope where the recursive search alone would have returned another
\* string than the well-known key's value
C6_Witness ==
    /\ EnvelopeParsed
    /\ C6_Hits(payload) # { }
    /\ walk(payload) # asset_url
    /\ Cardinality(C6_Hits(payload)) = 2

\* every string of a document, at any depth
RECURSIVE C7_Strings(_)
C7_Strings(x) ==
    CASE x.t = "str" -> { x.v }
      [] x.t = "arr" -> UNION { C7_Strings(x.v[n]) : n \in 1..Len(x.v) }
      [] x.t = "obj" -> UNION { C7_Strings(x.v[n][2]) : n \in 1..Len(x.v) }
      [] OTHER       -> { }

C7_Found(doc) == { t \in C7_Strings(doc) : URL_ASSET_RX_search(t) }

\* C7: for a JSON document without a well-known-key match, the fetch goes on
\* to re-download a string the pattern is found in when there is one at any
\* depth, and otherwise fails with the missing-URL error after one request
\* and no install attempt.
C7_RecursiveSearch ==
    (EnvelopeParsed /\ C6_Hits(payload) = { }) =>
        IF C7_Found(payload) # { }
        THEN pc = "get2" /\ asset_url \in C7_Found(payload)
        ELSE /\ err = "service returned JSON without an asset URL"
             /\ Len(reqs) = 1
             /\ InstallRuns = << >>

\* the text after the last "filename=" of the header, without surrounding
\* whitespace and double quotes; empty when the header names no file
C8_HeaderName(cd) ==
    LET ps == { p \in 1..Len(cd) : cd[p] = "filename=" }
    IN  IF ps = { } THEN << >>
        ELSE LET p == CHOOSE p \in ps : \A q \in ps : q <= p
             IN  Strip(Strip(Slice(cd, p + 1, Len(cd)), { " ", "\n" }), { "\"" })

\* the last path segment of a URL <<scheme, host, ...>>, query excluded
C8_LastSegment(u) ==
    LET qs    == { p \in 1..Len(u) : u[p] \in { "?", "#" } }
        stop  == IF qs = { } THEN Len(u)
                 ELSE (CHOOSE p \in qs : \A q \in qs : p <= q) - 1
        path  == RStrip(Slice(u, 3, stop), { "/" })
        cut   == { p \in 1..Len(path) : path[p] = "/" }
    IN  IF cut = { } THEN path
        ELSE Slice(path, (CHOOSE p \in cut : \A q \in cut : q <= p) + 1, Len(path))

C8_HasExt(f) == f # << >> /\ f[Len(f)] \in { ".whl", ".tar.gz" }

\* the archive was fetched through an envelope
ViaEnvelope == Len(reqs) = 2

C9_SniffedEnvelope ==
    /\ pc = "direct" => r.body.t # "obj"
    /\ ~ViaEnvelope => \A f \in files : f.content # "obj"

\* C10: at most two requests are sent; the first goes to the asset reference
\* with no header for an empty token, and otherwise with Authorization and
\* token both set to "Bearer <token>"; the re-fetch carries no header.
C10_CredentialOnFirstGetOnly ==
    /\ Len(reqs) <= 2
    /\ Len(reqs) >= 1 =>
          /\ reqs[1].url = dcx_url
          /\ reqs[1].headers =
                IF token = "" THEN { }
                ELSE { << "Authorization", << "Bearer ", token >> >>,
                       << "token", << "Bearer ", token >> >> }
    /\ Len(reqs) = 2 =>
          /\ reqs[2].url = asset_url
          /\ reqs[2].headers = { }

\* a re-fetch in a run that holds a credential
C10_Witness == Len(reqs) = 2 /\ token # "" /\ reqs[1].headers # { }

\* the "downloaded" lines logged so far: one per entry into the installer
C11_Downloaded == SelectSeq(logs, LAMBDA l : l[1] = "downloaded")

\* C11: a run calls requests.get once when the first response is a direct
\* binary and twice when it is an envelope that yields a URL; the second
\* response is written as the archive and never parsed; at most one archive
\* is written and the installer is entered at most once.
C11_OneOrTwoGets ==
    /\ Len(reqs) <= 2
    /\ pc \in { "status1", "envelope", "direct" } => Len(reqs) = 1
    /\ (r.status = 200 /\ ~is_json_ctype(r.ctype)) =>
          Len(reqs) = 1 /\ asset_url = << >>
    /\ asset_url # << >> =>
          /\ r.status = 200 /\ is_json_ctype(r.ctype)
          /\ Len(reqs) = IF pc = "get2" THEN 1 ELSE 2
    /\ Len(reqs) = 2 => asset_url # << >>
    /\ Cardinality(files) <= 1
    /\ files # { } =>
          files = { [ name    |-> archive,
                      content |-> IF asset_url = << >> THEN r.body.t
                                  ELSE r2.body.t ] }
    /\ Len(C11_Downloaded) <= 1
    /\ InstallRuns # << >> => Len(C11_Downloaded) = 1 /\ files # { }

\* an envelope run whose second response was itself a JSON document, written
\* as the archive and installed
C11_Witness ==
    /\ Len(reqs) = 2
    /\ is_json_ctype(r2.ctype)
    /\ \E f \in files : f.content = "obj"
    /\ InstallRuns # << >>

\* C12: a run of main with an explicit URL, a direct binary first response,
\* install strategy 1 exiting 0 and no build-description file ends in its
\* successful state: it has logged the completion message naming the scan
\* identifier and has raised nothing.
C12_ExplicitUrlRunSucceeds ==
    ( /\ entry = "main"
      /\ env_url # << >>
      /\ r.status = 200 /\ ~is_json_ctype(r.ctype) /\ r.body = Bin
      /\ Len(InstallRuns) = 1
      /\ InstallRuns[1].cmd = strategies[1] /\ InstallRuns[1].rc = 0
      /\ ~makefile
      /\ (Returned \/ Raised) )
    => /\ Returned
       /\ \E k \in DOMAIN logs : logs[k][1] = "complete" /\ logs[k][2] # ""

\* the operations of run_makeflow, in the order of lines 240-251
C13_Order ==
    << "make scan-full", "ls -td", "make check-ai-results-scan",
       "make check-ai-results-verbose", "make combine-analysis" >>

\* the exception on its way out of run_makeflow, "" for none
C13_Failure == IF pending # "" THEN pending ELSE err

\* C13: run_makeflow runs full scan, directory discovery, check (with the
\* discovered scan id), verbose check (with max_checks and delay, once) and
\* combine (with the same scan id) in this order; a non-zero exit of the scan,
\* the check or the verbose check, or no scan directory after the scan,
\* raises, and no later operation runs.
C13_OrchestratedOrder ==
    entry = "run_makeflow" =>
        /\ Len(cmds) <= Len(C13_Order)
        /\ \A k \in DOMAIN cmds :
              /\ cmds[k].cmd = C13_Order[k]
              /\ k < Len(cmds) => cmds[k].rc = 0
              /\ k \in { 3, 5 } =>
                    /\ scan_dir \in DOMAIN scanDirs
                    /\ cmds[k].arg = scan_dir
              /\ k = 4 =>
                    /\ cmds[k].arg = ToString(max_checks)
                    /\ cmds[k].arg2 = delay
        /\ \A k \in DOMAIN cmds :
              (k \in { 1, 3, 4 } /\ cmds[k].rc # 0) =>
                  /\ pc \in { "mk_finally", "raised" }
                  /\ C13_Failure = "cmd failed"
        /\ (Len(cmds) >= 2 /\ scan_dir = "" /\ pc # "mk_id") =>
              /\ Len(cmds) = 2
              /\ pc \in { "mk_finally", "raised" }
              /\ C13_Failure = "no scan directory under output/"
        /\ Returned => Len(cmds) = Len(C13_Order)

\* a complete orchestrated run with max_checks 2 and delay 0.5
C13_Witness ==
    /\ entry = "run_makeflow"
    /\ Returned
    /\ Len(cmds) = 5
    /\ cmds[4].arg = "2" /\ cmds[4].arg2 = "0.5"
    /\ cmds[3].arg = NewScanId

\* the scan identifier the steps after the selection were run with
C14_UsedIds ==
    { cmds[k].arg : k \in { n \in DOMAIN cmds :
          cmds[n].cmd \in { "make check-ai-results-scan",
                            "make combine-analysis" } } }
    \cup { logs[k][2] : k \in { n \in DOMAIN logs :
          logs[n][1] \in { "done", "complete" } } }

\* the listing has been made and has succeeded
C14_Listed ==
    /\ cmds # << >>
    /\ cmds[Len(cmds)].cmd = "ls -td" /\ cmds[Len(cmds)].rc = 0
    /\ pc \in { "mk_id", "cli_id" }

\* C14: the selection returns the output/dcx-scan-* entry with the latest
\* modification time, and its name is the scan identifier of the later
\* steps; with no such entry it returns nothing and run_makeflow and run_cli
\* raise the 'no scan directory' error and run no later step.
C14_LatestScanDir ==
    /\ C14_Listed =>
          IF DOMAIN scanDirs = { } THEN scan_dir = ""
          ELSE /\ scan_dir \in DOMAIN scanDirs
               /\ \A e \in DOMAIN scanDirs : scanDirs[e] <= scanDirs[scan_dir]
    /\ C14_UsedIds \subseteq { scan_dir }
    /\ C14_UsedIds # { } => scan_dir # ""
    /\ (entry \in { "run_makeflow", "run_cli" } /\ scan_dir = ""
            /\ (Returned \/ Raised) /\ cmds # << >>
            /\ cmds[Len(cmds)].cmd = "ls -td") =>
          /\ Raised
          /\ err = "no scan directory under output/"

\* two entries, the older one first by name: the newer one is selected
C14_Witness ==
    /\ C14_Listed
    /\ DOMAIN scanDirs = { "dcx-scan-a", "dcx-scan-b" }
    /\ scanDirs["dcx-scan-a"] < scanDirs["dcx-scan-b"]
    /\ scan_dir = "dcx-scan-b"

\* the indirection-service host
C15_ServiceHost == "api.withdmc.com"

\* the asset reference of a run of main, from its environment
C15_Reference ==
    IF env_url # << >> THEN env_url
    ELSE << "https://", C15_ServiceHost, "/", "v1", "/", "dmc", "/", "github",
            "/", "releases", "/", "download", "?", "tag=",
            IF env_tag = Unset THEN "latest" ELSE env_tag >>

\* C15: a run of main resolves one asset reference: a non-empty DCX_URL is
\* requested verbatim with the configured credential and the indirection
\* service is neither built nor queried; otherwise the reference is the
\* service endpoint with the release tag, 'latest' when DCX_TAG is not set.
C15_AssetReference ==
    entry = "main" =>
        /\ pc \in { "main", "ensure_tool", "ensure_recheck", "resolve" } =>
              dcx_url = env_url /\ reqs = << >>
        /\ reqs # << >> =>
              /\ dcx_url = C15_Reference
              /\ reqs[1] = [ url |-> C15_Reference,
                             headers |-> auth_headers(token) ]
        /\ env_url # << >> =>
              /\ dcx_url = env_url
              /\ \A k \in DOMAIN reqs : reqs[k].url[2] # C15_ServiceHost
        /\ Len(SelectSeq(logs, LAMBDA l : l[1] = "install from")) <= 1

\* the service queried for the configured tag v1, with a credential
C15_Witness ==
    /\ entry = "main"
    /\ env_url = << >> /\ env_tag = "v1" /\ token # ""
    /\ Len(reqs) = 1
    /\ Last(reqs[1].url) = "v1"
    /\ r.status = 200

\* the stage of main a position belongs to: toolchain ensure, asset
\* resolution, archive fetch, install, workflow; 6 when the run is over
C16_Stage(p) ==
    CASE p \in { "main", "ensure_tool", "ensure_recheck" } -> 1
      [] p = "resolve" -> 2
      [] p \in { "get1", "status1", "envelope", "direct", "get2", "status2",
                 "write2", "downloaded" } -> 3
      [] p = "install" -> 4
      [] p = "run_flow" -> 5
      [] OTHER -> 6

\* the response the archive was taken from
C16_Delivering == IF asset_url = << >> THEN r ELSE r2

\* the commands of the workflow stage
C16_WorkflowCmds ==
    SelectSeq(cmds, LAMBDA c :
        c.cmd \notin Range(strategies) \cup { "uv bootstrap" })

C16_Inv ==
    entry = "main" =>
        /\ InstallRuns # << >> =>
              /\ files = { [ name |-> archive,
                             content |-> C16_Delivering.body.t ] }
              /\ C16_Delivering.status = 200
        /\ (pc = "run_flow" \/ C16_WorkflowCmds # << >>) =>
              \E k \in DOMAIN InstallRuns : InstallRuns[k].rc = 0
        /\ (r.status \notin { 0, 200 } /\ pc # "status1") =>
              Raised /\ err = "download failed"
        /\ (r2.status \notin { 0, 200 } /\ pc # "status2") =>
              Raised /\ err = "asset download failed"
        /\ err \in { "download failed", "asset download failed",
                     "service returned JSON without an asset URL" } =>
              files = { } /\ cmds = SelectSeq(cmds, LAMBDA c : c.cmd = "uv bootstrap")
        /\ err = "service returned JSON without an asset URL" =>
              Len(reqs) = 1 /\ asset_url = << >>
        /\ InstallFailed =>
              /\ Len(InstallRuns) = Len(strategies)
              /\ \A k \in DOMAIN InstallRuns : InstallRuns[k].rc # 0
              /\ C16_WorkflowCmds = << >>

C16_Step ==
    entry = "main" =>
        /\ pc \notin { "raised", "done" }
        /\ C16_Stage(pc') >= C16_Stage(pc)
        /\ C16_Stage(pc') <= C16_Stage(pc) + 1 \/ pc' = "raised"

\* C16: main runs toolchain ensure, asset resolution, archive fetch, install
\* and workflow in this order, each at most once; an error ends the run and
\* nothing runs after it; an install strategy runs only after an archive was
\* written from a 200 response, and the workflow is entered only after an
\* install strategy exited 0.
C16_StagesInOrder == [] C16_Inv /\ [][C16_Step]_vars

\* a run through every stage: uv bootstrapped, envelope and re-fetch, the
\* second install strategy exiting 0
C16_Witness ==
    /\ entry = "main"
    /\ pc = "run_flow"
    /\ cmds[1].cmd = "uv bootstrap"
    /\ Len(reqs) = 2
    /\ Len(InstallRuns) = 2

\* the runs of the bootstrap installer
C17_Bootstraps == SelectSeq(cmds, LAMBDA c : c.cmd = "uv bootstrap")

\* ensure_tool("uv", ...) has returned normally
C17_ReturnedNormally ==
    \/ entry = "ensure_tool" /\ pc = "done"
    \/ entry = "main" /\ C16_Stage(pc) \in 2..5
    \/ entry = "main" /\ pc = "raised"
          /\ err \notin { "uv not found", "uv install failed" }
          /\ ~(err = "cmd failed" /\ Len(cmds) = 1)

C17_Inv ==
    entry \in { "main", "ensure_tool" } =>
        /\ Len(C17_Bootstraps) <= 1
        /\ C17_ReturnedNormally => "uv" \in onPath
        /\ err = "uv not found" =>
              "uv" \notin onPath /\ ~install_fn /\ C17_Bootstraps = << >>
        /\ err = "uv install failed" =>
              /\ "uv" \notin onPath /\ install_fn
              /\ Len(C17_Bootstraps) = 1 /\ C17_Bootstraps[1].rc = 0
        /\ (entry = "ensure_tool" /\ (Returned \/ Raised)
                /\ "uv" \notin onPath) =>
              /\ Raised
              /\ ~install_fn => err = "uv not found"
              /\ (install_fn /\ C17_Bootstraps[1].rc = 0) =>
                    err = "uv install failed"

\* what ensure_tool does at its first look at PATH
C17_Step ==
    pc = "ensure_tool" =>
        /\ "uv" \in onPath => cmds' = cmds /\ pc' = AfterEnsure
        /\ ("uv" \notin onPath /\ install_fn) =>
              /\ cmds = << >>
              /\ Len(cmds') = 1 /\ cmds'[1].cmd = "uv bootstrap"
        /\ ("uv" \notin onPath /\ ~install_fn) =>
              cmds' = cmds /\ err' = "uv not found"

\* C17: ensure_tool runs the bootstrap installer exactly when the tool is not
\* on PATH (and an installer was supplied), at most once; when it returns
\* normally the tool is on PATH; it raises when the tool is absent and no
\* installer was supplied or the tool is still absent after the installer.
C17_EnsureTool ==
    /\ [] C17_Inv
    /\ [][C17_Step /\ Len(C17_Bootstraps') >= Len(C17_Bootstraps)]_vars

\* the tool was absent, the installer ran and the tool is there
C17_Witness ==
    /\ entry = "ensure_tool"
    /\ pc = "done"
    /\ Len(C17_Bootstraps) = 1
    /\ "uv" \in onPath

\* C18: the installer tries three mechanisms in order on the same archive:
\* (1) uv tool install --force, (2) the package manager's package-install
\* mode with --user, (3) pip3 install --user; after (1) failed, (2) is the
\* package-install mode and pip3 runs only after both have failed.
C18_ThreeStrategies ==
    /\ Len(InstallRuns) >= 1 => InstallRuns[1].cmd = "uv tool install --force"
    /\ Len(InstallRuns) >= 2 => InstallRuns[2].cmd = "uv pip install --user"
    /\ \A k \in DOMAIN InstallRuns :
          InstallRuns[k].cmd = "pip3 install --user" =>
              /\ k = 3
              /\ InstallRuns[1].rc # 0 /\ InstallRuns[2].rc # 0
    /\ InstallFailed => Len(InstallRuns) = 3

\* C18 (amended): the installer tries two mechanisms in order on the same
\* archive: (1) uv tool install --force, (2) pip3 install --user; the
\* package manager's package-install mode is not in the list, and pip3 runs
\* as soon as, and only when, (1) has failed.
C18_TwoStrategies ==
    /\ Len(strategies) = 2
    /\ Len(InstallRuns) <= 2
    /\ \A k \in DOMAIN InstallRuns :
          /\ InstallRuns[k].cmd # "uv pip install --user"
          /\ InstallRuns[k].arg = archive
    /\ Len(InstallRuns) >= 1 => InstallRuns[1].cmd = "uv tool install --force"
    /\ Len(InstallRuns) >= 2 =>
          /\ InstallRuns[2].cmd = "pip3 install --user"
          /\ InstallRuns[1].rc # 0
    /\ (Len(InstallRuns) = 1 /\ InstallRuns[1].rc # 0) => pc = "install"
    /\ InstallFailed => Len(InstallRuns) = 2

\* strategy 1 failed and pip3 ran next on the same archive and exited 0
C18_Witness ==
    /\ Len(InstallRuns) = 2
    /\ InstallRuns[1].rc # 0
    /\ InstallRuns[2].cmd = "pip3 install --user" /\ InstallRuns[2].rc = 0
    /\ InstallRuns[1].arg = InstallRuns[2].arg
    /\ pc = "run_flow"

\* C19: run_makeflow leaves the working directory as it found it: on every
\* way out (return, failure of a make step, no scan directory) the working
\* directory is the one before the call, and every step ran inside the
\* scanner directory.
C19_CwdRestored ==
    entry = "run_makeflow" =>
        /\ pc = "run_makeflow" => cwd = StartDir
        /\ (Returned \/ Raised) => cwd = StartDir
        /\ \A k \in DOMAIN cmds : cmds[k].dir = ScannerDir
        /\ pc \in { "mk_scan", "mk_latest", "mk_id", "mk_check", "mk_verbose",
                    "mk_combine" } => cwd = ScannerDir

\* a make step failed inside the scanner directory and the run is back in
\* the directory it started in
C19_Witness ==
    /\ entry = "run_makeflow"
    /\ Raised /\ err = "cmd failed"
    /\ Len(cmds) = 3 /\ cmds[3].dir = ScannerDir
    /\ cwd = StartDir

\* C20: every non-empty value _extract_download_url_from_json returns is, as
\* a whole, an http(s) URL ending in .whl or .tar.gz (a query string may
\* follow), so the text handed to the re-fetch is a URL requests.get accepts.
C20_ExtractedIsWholeUrl ==
    /\ asset_url # << >> => URL_ASSET_RX_match(asset_url)
    /\ Len(reqs) = 2 => requests_accepts(reqs[2].url)

====
